---- MODULE Spec2Model ----
(***************************************************************************)
(* Model of src/app.py: a Flask backend whose whole state is one JSON      *)
(* document on disk (DATABASE_FILE) plus a folder of uploaded files.       *)
(* Every handler calls get_db_data, changes the loaded document in memory  *)
(* and calls save_db_data.                                                 *)
(*                                                                         *)
(* A JSON object is a function from a set of strings; a JSON array is a    *)
(* sequence.  The store file is a record [kind, doc]: kind says whether    *)
(* the file is absent, has zero bytes, holds text that is not JSON, or     *)
(* holds the serialization of doc.                                         *)
(***************************************************************************)
EXTENDS Integers, Sequences, FiniteSets, TLC

VARIABLES file, uploads, req, resp, th

vars == <<file, uploads, req, resp, th>>

(***************************************************************************)
(* Bounds of the model.                                                    *)
(***************************************************************************)
\* Activations of get_db_data before the interpreter raises RecursionError
RecursionLimit == 3
\* Longest users list after which no CPF is added
MaxUsers == 3
\* Longest providers list after which no provider is created
MaxProviders == 2
\* Records in the six collections together after which none is created
MaxRecords == 2
\* Entries in the four histories together after which none is posted
MaxHistory == 3
\* Requests each thread serves when two threads serve at once
MaxServed == 1

(***************************************************************************)
(* Input alphabets.  Hex stands for the 16^8 values of uuid4().hex[:8].    *)
(***************************************************************************)
Hex == {"0a", "0b"}
DefaultCpf == "74892016357"
Cpfs == {"", "111", "222", DefaultCpf}
Months == {"2024-01", "2024-02"}
ExecValues == {"d1", "d2"}
Series == {"aih-mac", "aih-faec", "apac-mac", "apac-faec"}
Entries == {"e1", "e2"}
Cursors == {"s1"}
Threads == {1, 2}

(***************************************************************************)
(* Python dict helpers.                                                    *)
(***************************************************************************)
EmptyDict == [k \in {} |-> 0]

Get(d, k, default) == IF k \in DOMAIN d THEN d[k] ELSE default

Put(d, k, v) == [x \in (DOMAIN d) \cup {k} |-> IF x = k THEN v ELSE d[x]]

Del(d, k) == [x \in (DOMAIN d) \ {k} |-> d[x]]

Append1(s, e) == Append(s, e)

RemoveAt(s, i) == [j \in 1..(Len(s) - 1) |-> IF j < i THEN s[j] ELSE s[j + 1]]

ReplaceAt(s, i, e) == [j \in 1..Len(s) |-> IF j = i THEN e ELSE s[j]]

\* next((i for i, r in enumerate(s) if r['id'] == id), None); 0 stands for None
FirstIndex(s, id) ==
    IF \E i \in 1..Len(s) : s[i]["id"] = id
    THEN CHOOSE i \in 1..Len(s) :
            /\ s[i]["id"] = id
            /\ \A j \in 1..(i - 1) : s[j]["id"] # id
    ELSE 0

\* [r for r in s if r['id'] != id]
RECURSIVE WithoutId(_, _)
WithoutId(s, id) ==
    IF s = <<>> THEN <<>>
    ELSE IF Head(s)["id"] = id THEN WithoutId(Tail(s), id)
         ELSE <<Head(s)>> \o WithoutId(Tail(s), id)

\* list.remove(x): drops the first occurrence
RECURSIVE ListRemove(_, _)
ListRemove(s, x) ==
    IF s = <<>> THEN <<>>
    ELSE IF Head(s) = x THEN Tail(s)
         ELSE <<Head(s)>> \o ListRemove(Tail(s), x)

InList(x, s) == \E i \in 1..Len(s) : s[i] = x

(***************************************************************************)
(* Storage accessor.                                                       *)
(***************************************************************************)
default_data ==
    [providers |-> <<>>,
     reports |-> <<>>,
     reguladores |-> <<>>,
     etiquetas |->
        [s \in Series |->
            [history |-> <<>>,
             current_start |->
                CASE s = "aih-mac" -> "282510110834"
                  [] s = "aih-faec" -> "282550000201"
                  [] s = "apac-mac" -> "282520119134"
                  [] s = "apac-faec" -> "282560000251"]],
     bloqueio_providers |-> <<>>,
     bloqueio_alteracoes |-> <<>>,
     users |-> <<DefaultCpf>>,
     waiting_list |-> <<>>]

MissingFile == [kind |-> "missing", doc |-> EmptyDict]
EmptyFile == [kind |-> "empty", doc |-> EmptyDict]
CorruptFile == [kind |-> "corrupt", doc |-> EmptyDict]

\* json.dump(data, f) into a file opened with 'w', after the file is closed
json_dump(data) == [kind |-> "json", doc |-> data]

\* json.loads(content); raises JSONDecodeError on text that is not JSON
json_loads(f) ==
    IF f.kind = "json" THEN [ok |-> TRUE, data |-> f.doc]
    ELSE [ok |-> FALSE, data |-> EmptyDict]

\* get_db_data_once that returns the default document without writing it
get_db_data_once_no_write(f) ==
    IF f.kind = "missing"
    THEN [out |-> "return", data |-> default_data, file |-> f, path |-> "default"]
    ELSE IF f.kind = "empty"
    THEN [out |-> "recurse", data |-> EmptyDict, file |-> f, path |-> "empty_file"]
    ELSE IF json_loads(f).ok
    THEN [out |-> "return", data |-> json_loads(f).data, file |-> f, path |-> "document"]
    ELSE [out |-> "return", data |-> EmptyDict, file |-> f, path |-> "decode_error"]

\* One activation of get_db_data on the file as it is now: what it returns
\* (out = "return"), or that it calls itself again (out = "recurse").
get_db_data_once(f) ==
    IF f.kind = "missing"
    THEN [out |-> "return", data |-> default_data,
          file |-> json_dump(default_data), path |-> "default"]
    ELSE IF f.kind = "empty"
    THEN [out |-> "recurse", data |-> EmptyDict, file |-> f, path |-> "empty_file"]
    ELSE IF json_loads(f).ok
    THEN [out |-> "return", data |-> json_loads(f).data, file |-> f, path |-> "document"]
    ELSE [out |-> "return", data |-> EmptyDict, file |-> f, path |-> "decode_error"]

\* get_db_data with no other request running: the file does not change between
\* the activations, and the interpreter raises RecursionError at RecursionLimit.
RECURSIVE get_db_data_at(_, _)
get_db_data_at(f, depth) ==
    LET r == get_db_data_once(f) IN
    IF r.out = "recurse"
    THEN IF depth >= RecursionLimit
         THEN [out |-> "RecursionError", data |-> EmptyDict, file |-> r.file,
               path |-> r.path]
         ELSE get_db_data_at(r.file, depth + 1)
    ELSE r

get_db_data(f) == get_db_data_at(f, 1)

save_db_data(data) == json_dump(data)

generate_id(prefix, hex) == <<prefix, hex>>

(***************************************************************************)
(* Handlers, as functions of the loaded document and the request.  Each    *)
(* returns the document as the handler leaves it, whether it called        *)
(* save_db_data, the HTTP status and the response body.                    *)
(***************************************************************************)
NoBody == <<>>

Reply(data, save, status, body) ==
    [data |-> data, save |-> save, status |-> status, body |-> body]

login(data, rq) ==
    LET users == Get(data, "users", <<>>) IN
    IF InList(rq.cpf, users)
    THEN Reply(data, FALSE, 200, NoBody)
    ELSE Reply(data, FALSE, 401, NoBody)

get_users(data, rq) == Reply(data, FALSE, 200, Get(data, "users", <<>>))

\* add_user without the duplicate test of line 89
add_user_no_duplicate_test(data, rq) ==
    LET users == Get(data, "users", <<>>) IN
    IF rq.cpf # ""
    THEN Reply(Put(data, "users", Append1(users, rq.cpf)), TRUE, 201, NoBody)
    ELSE Reply(data, FALSE, 400, NoBody)

add_user(data, rq) ==
    LET users == Get(data, "users", <<>>) IN
    IF rq.cpf # "" /\ ~InList(rq.cpf, users)
    THEN Reply(Put(data, "users", Append1(users, rq.cpf)), TRUE, 201, NoBody)
    ELSE Reply(data, FALSE, 400, NoBody)

delete_user(data, rq) ==
    LET users == Get(data, "users", <<>>) IN
    IF InList(rq.cpf, users)
    THEN Reply(Put(data, "users", ListRemove(users, rq.cpf)), TRUE, 200, NoBody)
    ELSE Reply(data, FALSE, 404, NoBody)

(***************************************************************************)
(* Provider and execution routes.                                          *)
(***************************************************************************)
get_providers(data, rq) == Reply(data, FALSE, 200, Get(data, "providers", <<>>))

add_provider(data, rq, rnd) ==
    LET new_provider ==
            Put(Put(rq.body, "id", generate_id("provider", rnd)), "execution", EmptyDict)
        providers == Get(data, "providers", <<>>)
    IN  Reply(Put(data, "providers", Append1(providers, new_provider)), TRUE, 201,
              new_provider)

\* update_provider that keeps an execution value the body supplies
update_provider_body_wins(data, rq) ==
    LET providers == Get(data, "providers", <<>>)
        provider_index == FirstIndex(providers, rq.id)
    IN  IF provider_index # 0
        THEN LET old == Get(providers[provider_index], "execution", EmptyDict)
                 updated_data ==
                    Put(Put(rq.body, "execution", Get(rq.body, "execution", old)),
                        "id", rq.id)
             IN  Reply(Put(data, "providers",
                           ReplaceAt(providers, provider_index, updated_data)),
                       TRUE, 200, NoBody)
        ELSE Reply(data, FALSE, 404, NoBody)

update_provider(data, rq) ==
    LET providers == Get(data, "providers", <<>>)
        provider_index == FirstIndex(providers, rq.id)
    IN  IF provider_index # 0
        THEN LET updated_data ==
                    Put(Put(rq.body, "execution",
                            Get(providers[provider_index], "execution", EmptyDict)),
                        "id", rq.id)
             IN  Reply(Put(data, "providers",
                           ReplaceAt(providers, provider_index, updated_data)),
                       TRUE, 200, NoBody)
        ELSE Reply(data, FALSE, 404, NoBody)

\* delete_by_filter with <= for < in the test of line 188
delete_by_filter_always_succeeds(data, key, id) ==
    LET records == Get(data, key, <<>>)
        new_list == WithoutId(records, id)
    IN  IF Len(new_list) <= Len(records)
        THEN Reply(Put(data, key, new_list), TRUE, 200, NoBody)
        ELSE Reply(data, FALSE, 404, NoBody)

\* The delete-by-filter of delete_provider and delete_waiting_list_item
delete_by_filter(data, key, id) ==
    LET records == Get(data, key, <<>>)
        new_list == WithoutId(records, id)
    IN  IF Len(new_list) < Len(records)
        THEN Reply(Put(data, key, new_list), TRUE, 200, NoBody)
        ELSE Reply(data, FALSE, 404, NoBody)

delete_provider(data, rq) == delete_by_filter(data, "providers", rq.id)

update_execution(data, rq) ==
    LET providers == Get(data, "providers", <<>>)
        i == FirstIndex(providers, rq.id)
    IN  IF i # 0
        THEN LET provider == providers[i]
                 execution == Get(provider, "execution", EmptyDict)
                 changed == Put(provider, "execution", Put(execution, rq.monthKey, rq.data))
             IN  Reply(Put(data, "providers", ReplaceAt(providers, i, changed)),
                       TRUE, 200, NoBody)
        ELSE Reply(data, FALSE, 404, NoBody)

\* delete_execution that empties the provider's execution map
delete_execution_clears_all(data, rq) ==
    LET providers == Get(data, "providers", <<>>)
        i == FirstIndex(providers, rq.id)
    IN  IF /\ i # 0
           /\ "execution" \in DOMAIN providers[i]
           /\ rq.monthKey \in DOMAIN providers[i]["execution"]
        THEN Reply(Put(data, "providers",
                       ReplaceAt(providers, i, Put(providers[i], "execution", EmptyDict))),
                   TRUE, 200, NoBody)
        ELSE Reply(data, FALSE, 404, NoBody)

delete_execution(data, rq) ==
    LET providers == Get(data, "providers", <<>>)
        i == FirstIndex(providers, rq.id)
    IN  IF /\ i # 0
           /\ "execution" \in DOMAIN providers[i]
           /\ rq.monthKey \in DOMAIN providers[i]["execution"]
        THEN LET provider == providers[i]
                 changed == Put(provider, "execution",
                                Del(provider["execution"], rq.monthKey))
             IN  Reply(Put(data, "providers", ReplaceAt(providers, i, changed)),
                       TRUE, 200, NoBody)
        ELSE Reply(data, FALSE, 404, NoBody)

(***************************************************************************)
(* Waiting list, reports, reguladores and bloqueio routes.                 *)
(***************************************************************************)
\* The create shared by the collections whose POST stores the body under a new id
create_record(data, key, prefix, rq, rnd) ==
    LET record == Put(rq.body, "id", generate_id(prefix, rnd))
    IN  Reply(Put(data, key, Append1(Get(data, key, <<>>), record)), TRUE, 201, record)

\* update_bloqueio_provider and the PUT of handle_single_regulador, which
\* differ in the status line only
replace_record(data, key, rq) ==
    LET records == Get(data, key, <<>>)
        index == FirstIndex(records, rq.id)
    IN  IF index # 0
        THEN LET record == Put(rq.body, "id", rq.id)
             IN  Reply(Put(data, key, ReplaceAt(records, index, record)), TRUE, 200, record)
        ELSE Reply(data, FALSE, 404, NoBody)

get_waiting_list(data, rq) == Reply(data, FALSE, 200, Get(data, "waiting_list", <<>>))

add_waiting_list_item(data, rq, rnd) ==
    create_record(data, "waiting_list", "wait", rq, rnd)

\* update_data.get('name', item['name']) evaluates item['name'] first: a
\* stored item without the key raises KeyError, answered 500 with no save.
update_waiting_list_item(data, rq) ==
    LET waiting_list == Get(data, "waiting_list", <<>>)
        item_index == FirstIndex(waiting_list, rq.id)
    IN  IF item_index # 0
        THEN LET item == waiting_list[item_index] IN
             IF "name" \notin DOMAIN item \/ "count" \notin DOMAIN item
             THEN Reply(data, FALSE, 500, NoBody)
             ELSE LET changed ==
                         Put(Put(item, "name", Get(rq.body, "name", item["name"])),
                             "count", Get(rq.body, "count", item["count"]))
                  IN  Reply(Put(data, "waiting_list",
                                ReplaceAt(waiting_list, item_index, changed)),
                            TRUE, 200, changed)
        ELSE Reply(data, FALSE, 404, NoBody)

delete_waiting_list_item(data, rq) == delete_by_filter(data, "waiting_list", rq.id)

get_reports(data, rq) == Reply(data, FALSE, 200, Get(data, "reports", <<>>))

\* The name add_report stores the uploaded file under
stored_filename(rq, rnd) == <<generate_id("report", rnd.file), rq.filename>>

\* add_report after the file is saved: the metadata record
add_report(data, rq, rnd) ==
    LET new_report == [id |-> generate_id("report_meta", rnd.meta),
                       name |-> rq.name,
                       description |-> rq.description,
                       filename |-> stored_filename(rq, rnd)]
    IN  Reply(Put(data, "reports", Append1(Get(data, "reports", <<>>), new_report)),
              TRUE, 201, new_report)

delete_report(data, rq) ==
    LET reports == Get(data, "reports", <<>>)
        found == FirstIndex(reports, rq.id)
    IN  IF found # 0
        THEN Reply(Put(data, "reports", WithoutId(reports, rq.id)), TRUE, 200, NoBody)
        ELSE Reply(data, FALSE, 404, NoBody)

get_reguladores(data, rq) == Reply(data, FALSE, 200, Get(data, "reguladores", <<>>))

add_regulador(data, rq, rnd) == create_record(data, "reguladores", "regulador", rq, rnd)

put_regulador(data, rq) == replace_record(data, "reguladores", rq)

delete_regulador(data, rq) ==
    LET reguladores == Get(data, "reguladores", <<>>)
        regulador_index == FirstIndex(reguladores, rq.id)
    IN  IF regulador_index = 0
        THEN Reply(data, FALSE, 404, NoBody)
        ELSE Reply(Put(data, "reguladores", RemoveAt(reguladores, regulador_index)),
                   TRUE, 200, NoBody)

get_bloqueio_providers(data, rq) ==
    Reply(data, FALSE, 200, Get(data, "bloqueio_providers", <<>>))

add_bloqueio_provider(data, rq, rnd) ==
    create_record(data, "bloqueio_providers", "bloqueio_p", rq, rnd)

update_bloqueio_provider(data, rq) == replace_record(data, "bloqueio_providers", rq)

get_bloqueio_alteracoes(data, rq) ==
    Reply(data, FALSE, 200, Get(data, "bloqueio_alteracoes", <<>>))

add_bloqueio_alteracao(data, rq, rnd) ==
    create_record(data, "bloqueio_alteracoes", "bloqueio_a", rq, rnd)

(***************************************************************************)
(* Etiquetas route.                                                        *)
(***************************************************************************)
get_etiquetas(data, rq) == Reply(data, FALSE, 200, Get(data, "etiquetas", EmptyDict))

\* post_etiquetas that replaces the history by the new entry
post_etiquetas_overwrites(data, rq) ==
    LET etiquetas == Get(data, "etiquetas", EmptyDict)
        tipo == rq.type
    IN  IF tipo \in DOMAIN etiquetas
        THEN LET series == [history |-> <<rq.entry>>, current_start |-> rq.next_start]
             IN  Reply(Put(data, "etiquetas", Put(etiquetas, tipo, series)),
                       TRUE, 200, NoBody)
        ELSE Reply(data, FALSE, 400, NoBody)

\* post_etiquetas that reads the store again and changes that document
post_etiquetas_rereads(data, rq) ==
    LET fresh == IF file.kind = "json" THEN file.doc ELSE data
        etiquetas == Get(fresh, "etiquetas", EmptyDict)
        tipo == rq.type
    IN  IF tipo \in DOMAIN etiquetas
        THEN LET series == [history |-> Append1(etiquetas[tipo]["history"], rq.entry),
                            current_start |-> rq.next_start]
             IN  Reply(Put(fresh, "etiquetas", Put(etiquetas, tipo, series)),
                       TRUE, 200, NoBody)
        ELSE Reply(fresh, FALSE, 400, NoBody)

\* post_etiquetas that accepts a series name the store does not hold
post_etiquetas_creates_series(data, rq) ==
    LET etiquetas == Get(data, "etiquetas", EmptyDict)
        tipo == rq.type
        old == Get(etiquetas, tipo, [history |-> <<>>, current_start |-> ""])
        series == [history |-> Append1(old["history"], rq.entry),
                   current_start |-> rq.next_start]
    IN  Reply(Put(data, "etiquetas", Put(etiquetas, tipo, series)), TRUE, 200, NoBody)

post_etiquetas(data, rq) ==
    LET etiquetas == Get(data, "etiquetas", EmptyDict)
        tipo == rq.type
    IN  IF tipo \in DOMAIN etiquetas
        THEN LET series == [history |-> Append1(etiquetas[tipo]["history"], rq.entry),
                            current_start |-> rq.next_start]
             IN  Reply(Put(data, "etiquetas", Put(etiquetas, tipo, series)),
                       TRUE, 200, NoBody)
        ELSE Reply(data, FALSE, 400, NoBody)

(***************************************************************************)
(* A request served alone: load, handle, save.  rnd is what uuid4 yields   *)
(* for the handlers that call generate_id.                                 *)
(***************************************************************************)
Handle(rq, data, rnd) ==
    CASE rq.op = "login" -> login(data, rq)
      [] rq.op = "get_users" -> get_users(data, rq)
      [] rq.op = "add_user" -> add_user(data, rq)
      [] rq.op = "delete_user" -> delete_user(data, rq)
      [] rq.op = "get_providers" -> get_providers(data, rq)
      [] rq.op = "add_provider" -> add_provider(data, rq, rnd)
      [] rq.op = "update_provider" -> update_provider(data, rq)
      [] rq.op = "delete_provider" -> delete_provider(data, rq)
      [] rq.op = "update_execution" -> update_execution(data, rq)
      [] rq.op = "delete_execution" -> delete_execution(data, rq)
      [] rq.op = "get_etiquetas" -> get_etiquetas(data, rq)
      [] rq.op = "post_etiquetas" -> post_etiquetas(data, rq)
      [] rq.op = "get_waiting_list" -> get_waiting_list(data, rq)
      [] rq.op = "add_waiting_list_item" -> add_waiting_list_item(data, rq, rnd)
      [] rq.op = "update_waiting_list_item" -> update_waiting_list_item(data, rq)
      [] rq.op = "delete_waiting_list_item" -> delete_waiting_list_item(data, rq)
      [] rq.op = "get_reports" -> get_reports(data, rq)
      [] rq.op = "add_report" -> add_report(data, rq, rnd)
      [] rq.op = "delete_report" -> delete_report(data, rq)
      [] rq.op = "get_reguladores" -> get_reguladores(data, rq)
      [] rq.op = "add_regulador" -> add_regulador(data, rq, rnd)
      [] rq.op = "put_regulador" -> put_regulador(data, rq)
      [] rq.op = "delete_regulador" -> delete_regulador(data, rq)
      [] rq.op = "get_bloqueio_providers" -> get_bloqueio_providers(data, rq)
      [] rq.op = "add_bloqueio_provider" -> add_bloqueio_provider(data, rq, rnd)
      [] rq.op = "update_bloqueio_provider" -> update_bloqueio_provider(data, rq)
      [] rq.op = "get_bloqueio_alteracoes" -> get_bloqueio_alteracoes(data, rq)
      [] rq.op = "add_bloqueio_alteracao" -> add_bloqueio_alteracao(data, rq, rnd)

\* The upload folder after the request: add_report saves the file before it
\* loads the store; delete_report removes the file of the record it found,
\* and an OSError there is caught.
UploadsAfter(rq, rnd, loaded, data) ==
    IF rq.op = "add_report" THEN uploads \cup {stored_filename(rq, rnd)}
    ELSE IF rq.op = "delete_report" /\ loaded
    THEN LET reports == Get(data, "reports", <<>>)
             found == FirstIndex(reports, rq.id)
         IN  IF found # 0 THEN uploads \ {reports[found]["filename"]} ELSE uploads
    ELSE uploads

ServeWith(rq, rnd) ==
    \E r \in {get_db_data(file)} :
        /\ req' = rq
        /\ IF r.out = "RecursionError"
           THEN /\ file' = r.file
                /\ resp' = [status |-> 500, load |-> r.path, body |-> NoBody]
                /\ uploads' = UploadsAfter(rq, rnd, FALSE, r.data)
           ELSE \E h \in {Handle(rq, r.data, rnd)} :
                    /\ file' = IF h.save THEN save_db_data(h.data) ELSE r.file
                    /\ resp' = [status |-> h.status, load |-> r.path, body |-> h.body]
                    /\ uploads' = UploadsAfter(rq, rnd, TRUE, r.data)
        /\ UNCHANGED th

\* A request refused before the store is read
Refuse(rq, status) ==
    /\ req' = rq
    /\ resp' = [status |-> status, load |-> "none", body |-> NoBody]
    /\ UNCHANGED <<file, uploads, th>>

Serve(rq) == ServeWith(rq, "")

\* The collection a handler reads from the store: data.get(key, [])
ListOf(f, key) == IF f.kind = "json" THEN Get(f.doc, key, <<>>) ELSE <<>>

ProvidersOf(f) == ListOf(f, "providers")

ExecutionOf(p) == Get(p, "execution", EmptyDict)

EtiquetasOf(f) == IF f.kind = "json" THEN Get(f.doc, "etiquetas", EmptyDict) ELSE EmptyDict

HistoryOf(f, s) ==
    IF s \in DOMAIN EtiquetasOf(f) THEN EtiquetasOf(f)[s]["history"] ELSE <<>>

\* No thread is inside a handler: the requests are served one at a time
OneAtATime == \A t \in Threads : th[t].pc = "idle"

UsersOf(f) == IF f.kind = "json" THEN Get(f.doc, "users", <<>>) ELSE <<>>

LoginReq ==
    /\ OneAtATime
    /\ \E c \in Cpfs : Serve([op |-> "login", cpf |-> c])

GetUsersReq ==
    /\ OneAtATime
    /\ Serve([op |-> "get_users"])

AddUserReq ==
    /\ OneAtATime
    /\ Len(UsersOf(file)) < MaxUsers
    /\ \E c \in Cpfs : Serve([op |-> "add_user", cpf |-> c])

DeleteUserReq ==
    /\ OneAtATime
    /\ \E c \in Cpfs : Serve([op |-> "delete_user", cpf |-> c])

NoRequest == [op |-> "none"]
NoResponse == [status |-> 0, load |-> "none", body |-> NoBody]
IdleThread ==
    [pc |-> "idle", req |-> NoRequest, rnd |-> "", data |-> EmptyDict,
     loaded |-> EmptyDict, depth |-> 0, status |-> 0, served |-> 0]

Init ==
    /\ file = MissingFile
    /\ uploads = {}
    /\ req = NoRequest
    /\ resp = NoResponse
    /\ th = [t \in Threads |-> IdleThread]

NextUsers == LoginReq \/ GetUsersReq \/ AddUserReq \/ DeleteUserReq

SpecUsers == Init /\ [][NextUsers]_vars

\* The store as a deployment can find it: absent, zero bytes, or not JSON.
InitStore ==
    /\ file \in {MissingFile, EmptyFile, CorruptFile}
    /\ uploads = {}
    /\ req = NoRequest
    /\ resp = NoResponse
    /\ th = [t \in Threads |-> IdleThread]

SpecStore == InitStore /\ [][NextUsers]_vars

(***************************************************************************)
(* Requests on providers and their execution maps.                         *)
(***************************************************************************)
UnknownHex == "ff"

UrlIds(prefix) == {generate_id(prefix, h) : h \in Hex \cup {UnknownHex}}

OtherExecution == [m \in {"2024-01"} |-> "d2"]

AddBodies == {[name |-> "n1"]}

ProviderBodies ==
    {[name |-> "n1"],
     [name |-> "n2", execution |-> OtherExecution],
     [name |-> "n2", execution |-> EmptyDict, id |-> generate_id("provider", "0b")]}

GetProvidersReq ==
    /\ OneAtATime
    /\ Serve([op |-> "get_providers"])

AddProviderReq ==
    /\ OneAtATime
    /\ Len(ProvidersOf(file)) < MaxProviders
    /\ \E b \in AddBodies, h \in Hex :
          ServeWith([op |-> "add_provider", body |-> b], h)

UpdateProviderReq ==
    /\ OneAtATime
    /\ \E id \in UrlIds("provider"), b \in ProviderBodies :
           Serve([op |-> "update_provider", id |-> id, body |-> b])

DeleteProviderReq ==
    /\ OneAtATime
    /\ \E id \in UrlIds("provider") : Serve([op |-> "delete_provider", id |-> id])

UpdateExecutionReq ==
    /\ OneAtATime
    /\ \E id \in UrlIds("provider"), m \in Months, d \in ExecValues :
           Serve([op |-> "update_execution", id |-> id, monthKey |-> m, data |-> d])

\* Execution PUTs for one month only
UpdateExecutionJanReq ==
    /\ OneAtATime
    /\ \E id \in UrlIds("provider"), d \in ExecValues :
           Serve([op |-> "update_execution", id |-> id, monthKey |-> "2024-01", data |-> d])

DeleteExecutionReq ==
    /\ OneAtATime
    /\ \E id \in UrlIds("provider"), m \in Months :
           Serve([op |-> "delete_execution", id |-> id, monthKey |-> m])

\* Full-record provider requests, with execution data for one month
NextProviders ==
    \/ GetProvidersReq
    \/ AddProviderReq
    \/ UpdateProviderReq
    \/ DeleteProviderReq
    \/ UpdateExecutionJanReq

SpecProviders == Init /\ [][NextProviders]_vars

\* Execution requests on providers that are created and never replaced
NextExecution ==
    \/ GetProvidersReq
    \/ AddProviderReq
    \/ UpdateExecutionReq
    \/ DeleteExecutionReq

SpecExecution == Init /\ [][NextExecution]_vars

(***************************************************************************)
(* Requests on the six record collections.                                 *)
(***************************************************************************)
RECURSIVE SumRecords(_, _)
SumRecords(f, keys) ==
    IF keys = {} THEN 0
    ELSE LET k == CHOOSE x \in keys : TRUE
         IN  Len(ListOf(f, k)) + SumRecords(f, keys \ {k})

RecordKeys == {"providers", "reports", "reguladores", "bloqueio_providers",
               "bloqueio_alteracoes", "waiting_list"}

Room == SumRecords(file, RecordKeys) < MaxRecords

WaitBodies == {[name |-> "n1", count |-> 1], [name |-> "n1"]}

WaitUpdates == {[name |-> "n2", id |-> generate_id("wait", "0b")]}

ReplaceBodies == {[name |-> "n2", id |-> generate_id("other", "0b")]}

Uploads == {<<FALSE, "r.pdf">>, <<TRUE, "">>, <<TRUE, "r.pdf">>}

NewProviderReq ==
    /\ OneAtATime
    /\ Room
    /\ \E h \in Hex : ServeWith([op |-> "add_provider", body |-> [name |-> "n1"]], h)

ReplaceProviderReq ==
    /\ OneAtATime
    /\ \E id \in UrlIds("provider"), b \in ReplaceBodies :
           Serve([op |-> "update_provider", id |-> id, body |-> b])

GetWaitingListReq ==
    /\ OneAtATime
    /\ Serve([op |-> "get_waiting_list"])

AddWaitingListItemReq ==
    /\ OneAtATime
    /\ Room
    /\ \E b \in WaitBodies, h \in Hex :
          ServeWith([op |-> "add_waiting_list_item", body |-> b], h)

UpdateWaitingListItemReq ==
    /\ OneAtATime
    /\ \E id \in UrlIds("wait"), b \in WaitUpdates :
           Serve([op |-> "update_waiting_list_item", id |-> id, body |-> b])

DeleteWaitingListItemReq ==
    /\ OneAtATime
    /\ \E id \in UrlIds("wait") : Serve([op |-> "delete_waiting_list_item", id |-> id])

GetReportsReq ==
    /\ OneAtATime
    /\ Serve([op |-> "get_reports"])

\* add_report answers 400 before it reads the store when the file part or
\* its filename is missing
AddReportReq ==
    /\ OneAtATime
    /\ Room
    /\ \E u \in Uploads, hf \in Hex, hm \in Hex :
          LET rq == [op |-> "add_report", has_file |-> u[1], filename |-> u[2],
                     name |-> "n1", description |-> "t1"]
          IN  IF ~u[1] \/ u[2] = ""
              THEN Refuse(rq, 400)
              ELSE ServeWith(rq, [file |-> hf, meta |-> hm])

DeleteReportReq ==
    /\ OneAtATime
    /\ \E id \in UrlIds("report_meta") : Serve([op |-> "delete_report", id |-> id])

GetReguladoresReq ==
    /\ OneAtATime
    /\ Serve([op |-> "get_reguladores"])

AddReguladorReq ==
    /\ OneAtATime
    /\ Room
    /\ \E h \in Hex : ServeWith([op |-> "add_regulador", body |-> [name |-> "n1"]], h)

PutReguladorReq ==
    /\ OneAtATime
    /\ \E id \in UrlIds("regulador"), b \in ReplaceBodies :
           Serve([op |-> "put_regulador", id |-> id, body |-> b])

DeleteReguladorReq ==
    /\ OneAtATime
    /\ \E id \in UrlIds("regulador") : Serve([op |-> "delete_regulador", id |-> id])

GetBloqueioProvidersReq ==
    /\ OneAtATime
    /\ Serve([op |-> "get_bloqueio_providers"])

AddBloqueioProviderReq ==
    /\ OneAtATime
    /\ Room
    /\ \E h \in Hex :
          ServeWith([op |-> "add_bloqueio_provider", body |-> [name |-> "n1"]], h)

UpdateBloqueioProviderReq ==
    /\ OneAtATime
    /\ \E id \in UrlIds("bloqueio_p"), b \in ReplaceBodies :
           Serve([op |-> "update_bloqueio_provider", id |-> id, body |-> b])

GetBloqueioAlteracoesReq ==
    /\ OneAtATime
    /\ Serve([op |-> "get_bloqueio_alteracoes"])

AddBloqueioAlteracaoReq ==
    /\ OneAtATime
    /\ Room
    /\ \E h \in Hex :
          ServeWith([op |-> "add_bloqueio_alteracao", body |-> [name |-> "n1"]], h)

\* Create, update and delete on the six record collections
NextCrud ==
    \/ NewProviderReq
    \/ ReplaceProviderReq
    \/ DeleteProviderReq
    \/ AddWaitingListItemReq
    \/ UpdateWaitingListItemReq
    \/ DeleteWaitingListItemReq
    \/ AddReportReq
    \/ DeleteReportReq
    \/ AddReguladorReq
    \/ PutReguladorReq
    \/ DeleteReguladorReq
    \/ AddBloqueioProviderReq
    \/ UpdateBloqueioProviderReq
    \/ AddBloqueioAlteracaoReq
    \/ GetBloqueioProvidersReq
    \/ GetBloqueioAlteracoesReq

SpecCrud == Init /\ [][NextCrud]_vars

\* List, create and delete on the four collections that have a delete route
NextDelete ==
    \/ GetProvidersReq
    \/ NewProviderReq
    \/ DeleteProviderReq
    \/ GetWaitingListReq
    \/ AddWaitingListItemReq
    \/ DeleteWaitingListItemReq
    \/ GetReportsReq
    \/ AddReportReq
    \/ DeleteReportReq
    \/ GetReguladoresReq
    \/ AddReguladorReq
    \/ DeleteReguladorReq

SpecDelete == Init /\ [][NextDelete]_vars

(***************************************************************************)
(* Requests on the etiqueta series.                                        *)
(***************************************************************************)
RECURSIVE SumHistory(_, _)
SumHistory(f, ss) ==
    IF ss = {} THEN 0
    ELSE LET s == CHOOSE x \in ss : TRUE
         IN  Len(HistoryOf(f, s)) + SumHistory(f, ss \ {s})

GetEtiquetasReq ==
    /\ OneAtATime
    /\ Serve([op |-> "get_etiquetas"])

PostEtiquetasReq ==
    /\ OneAtATime
    /\ SumHistory(file, DOMAIN EtiquetasOf(file)) < MaxHistory
    /\ \E t \in Series \cup {"bpa"}, e \in Entries, c \in Cursors :
          Serve([op |-> "post_etiquetas", type |-> t, entry |-> e, next_start |-> c])

\* Etiqueta requests, among requests that save the document for another reason
NextEtiquetas == GetEtiquetasReq \/ PostEtiquetasReq \/ AddProviderReq

SpecEtiquetas == Init /\ [][NextEtiquetas]_vars

(***************************************************************************)
(* Requests served by two threads at once.  A thread's request goes        *)
(* through get_db_data (one activation a step), the handler, and           *)
(* save_db_data, whose open(..., 'w') empties the file before json.dump    *)
(* fills it.  th[t].loaded keeps what get_db_data returned.                *)
(***************************************************************************)
ConcRequests ==
    {[op |-> "post_etiquetas", type |-> "aih-mac", entry |-> e, next_start |-> "s1"] :
        e \in Entries}
        \cup {[op |-> "add_provider", body |-> [name |-> "n1"]], [op |-> "get_users"]}

\* open(DATABASE_FILE, 'w'): the file exists and has zero bytes
open_w(f) == EmptyFile

\* json.dump through a handle opened earlier, the file now being f: the text
\* is written from offset 0, so where another writer has left a different
\* text since the open, its tail may remain after ours and the file is not
\* JSON.
dump_outcomes(f, data) ==
    IF f.kind = "corrupt" \/ (f.kind = "json" /\ f.doc # data)
    THEN {json_dump(data), CorruptFile}
    ELSE {json_dump(data)}

Begin(t) ==
    /\ th[t].pc \in {"idle", "done"}
    /\ th[t].served < MaxServed
    /\ \E rq \in ConcRequests, h \in Hex :
          th' = [th EXCEPT ![t] =
                    [@ EXCEPT !.pc = "load", !.req = rq,
                              !.rnd = IF rq.op = "add_provider" THEN h ELSE "",
                              !.depth = 1, !.status = 0, !.served = @ + 1]]
    /\ UNCHANGED <<file, uploads, req, resp>>

\* One activation of get_db_data
LoadStep(t) ==
    /\ th[t].pc = "load"
    /\ LET r == get_db_data_once(file) IN
       IF file.kind = "missing"
       THEN /\ file' = open_w(file)
            /\ th' = [th EXCEPT ![t] = [@ EXCEPT !.pc = "write_default"]]
       ELSE IF r.out = "recurse"
       THEN /\ file' = file
            /\ th' = [th EXCEPT ![t] =
                        IF th[t].depth >= RecursionLimit
                        THEN [@ EXCEPT !.pc = "done", !.status = 500]
                        ELSE [@ EXCEPT !.depth = @ + 1]]
       ELSE /\ file' = file
            /\ th' = [th EXCEPT ![t] =
                        [@ EXCEPT !.pc = "handle", !.data = r.data, !.loaded = r.data]]
    /\ UNCHANGED <<uploads, req, resp>>

\* json.dump(default_data, f) of get_db_data, and its return
WriteDefaultStep(t) ==
    /\ th[t].pc = "write_default"
    /\ file' \in dump_outcomes(file, default_data)
    /\ th' = [th EXCEPT ![t] =
                [@ EXCEPT !.pc = "handle", !.data = default_data,
                          !.loaded = default_data]]
    /\ UNCHANGED <<uploads, req, resp>>

\* The handler's work on its own copy, up to the open of save_db_data
HandleStep(t) ==
    /\ th[t].pc = "handle"
    /\ LET h == Handle(th[t].req, th[t].data, th[t].rnd) IN
       IF h.save
       THEN /\ file' = open_w(file)
            /\ th' = [th EXCEPT ![t] =
                        [@ EXCEPT !.pc = "dump", !.data = h.data, !.status = h.status]]
       ELSE /\ file' = file
            /\ th' = [th EXCEPT ![t] = [@ EXCEPT !.pc = "done", !.status = h.status]]
    /\ UNCHANGED <<uploads, req, resp>>

\* json.dump(data, f) of save_db_data, and the response
DumpStep(t) ==
    /\ th[t].pc = "dump"
    /\ file' \in dump_outcomes(file, th[t].data)
    /\ th' = [th EXCEPT ![t] = [@ EXCEPT !.pc = "done"]]
    /\ UNCHANGED <<uploads, req, resp>>

NextConc ==
    \E t \in Threads :
        \/ Begin(t)
        \/ LoadStep(t)
        \/ WriteDefaultStep(t)
        \/ HandleStep(t)
        \/ DumpStep(t)

SpecConc == Init /\ [][NextConc]_vars

(***************************************************************************)
(* Claims about the storage accessor and the allow-list.                   *)
(***************************************************************************)
ReadOnlyOps == {"login", "get_users"}

AllKeys == RecordKeys \cup {"users", "etiquetas"}

StartCursor(s) ==
    CASE s = "aih-mac" -> "282510110834"
      [] s = "aih-faec" -> "282550000201"
      [] s = "apac-mac" -> "282520119134"
      [] s = "apac-faec" -> "282560000251"

FreshSeries(doc) ==
    /\ DOMAIN doc["etiquetas"] = Series
    /\ \A s \in Series :
          /\ doc["etiquetas"][s]["history"] = <<>>
          /\ doc["etiquetas"][s]["current_start"] = StartCursor(s)

WroteDefault(f, users) ==
    /\ f.kind = "json"
    /\ DOMAIN f.doc = AllKeys
    /\ \A k \in RecordKeys : f.doc[k] = <<>>
    /\ f.doc["users"] = users
    /\ FreshSeries(f.doc)

\* C2 as stated: a request that finds no store file leaves a default
\* document on disk, and is answered from it, in which the six record
\* collections and users are empty and the four series are fresh.
C2_DefaultUsersEmpty ==
    [][(file.kind = "missing" /\ req'.op \in ReadOnlyOps) =>
          /\ resp'.load = "default"
          /\ WroteDefault(file', <<>>)
          /\ (req'.op = "get_users" => resp'.body = <<>>)]_vars

\* C2 amended: as C2, except that users holds the one default CPF.
C2_DefaultDocument ==
    [][(file.kind = "missing" /\ req'.op \in ReadOnlyOps) =>
          /\ resp'.load = "default"
          /\ WroteDefault(file', <<DefaultCpf>>)
          /\ (req'.op = "get_users" => resp'.body = <<DefaultCpf>>)]_vars

C2_Witness ==
    /\ req.op = "get_users"
    /\ resp.load = "default"
    /\ file.kind = "json"

\* C3: a request that finds the store file present but unreadable (zero
\* bytes, or text that is not JSON) is served from an empty state: it does
\* not fail, and a listing returns no records.
C3_UnreadableStoreServed ==
    (resp.load \in {"empty_file", "decode_error"}) =>
        /\ resp.status # 500
        /\ (req.op = "get_users" => resp.body = <<>>)

\* C9: login answers 200 exactly when the CPF is in users, 401 otherwise; a
\* CPF accepted by POST /api/users is in users afterwards; a CPF removed by
\* DELETE /api/users/{cpf} is not.
C9_LoginIffUser ==
    /\ (req.op = "login" =>
          /\ resp.status \in {200, 401}
          /\ (resp.status = 200 <=> InList(req.cpf, UsersOf(file))))
    /\ ((req.op = "add_user" /\ resp.status = 201) => InList(req.cpf, UsersOf(file)))
    /\ ((req.op = "delete_user" /\ resp.status = 200) => ~InList(req.cpf, UsersOf(file)))

C9_Witness ==
    /\ req.op = "login"
    /\ resp.status = 200
    /\ req.cpf # DefaultCpf

(***************************************************************************)
(* Claims about providers and their execution maps.                        *)
(***************************************************************************)
\* C1: a successful PUT /api/providers/{id} leaves the execution map of
\* every provider in the store, the updated one included, as it was, whatever
\* execution value the body carries.
C1_UpdateKeepsExecution ==
    [][(req'.op = "update_provider" /\ resp'.status = 200) =>
          LET old == ProvidersOf(file)
              new == ProvidersOf(file')
          IN  /\ Len(new) = Len(old)
              /\ FirstIndex(old, req'.id) # 0
              /\ \A i \in 1..Len(old) :
                    /\ "execution" \in DOMAIN new[i]
                    /\ new[i]["execution"] = ExecutionOf(old[i])]_vars

C1_Witness ==
    /\ req.op = "update_provider"
    /\ resp.status = 200
    /\ "execution" \in DOMAIN req.body
    /\ LET p == ProvidersOf(file)[FirstIndex(ProvidersOf(file), req.id)]
       IN  /\ p["execution"] # EmptyDict
           /\ p["execution"] # req.body["execution"]
           /\ p["name"] = req.body["name"]

\* C8, the PUT: a successful execution PUT leaves the supplied data under
\* the supplied month key of the provider.
C8_PutStep ==
    (req'.op = "update_execution" /\ resp'.status = 200) =>
        LET ps == ProvidersOf(file')
            i == FirstIndex(ps, req'.id)
        IN  /\ i # 0
            /\ i = FirstIndex(ProvidersOf(file), req'.id)
            /\ req'.monthKey \in DOMAIN ExecutionOf(ps[i])
            /\ ExecutionOf(ps[i])[req'.monthKey] = req'.data

\* C8, the DELETE: it answers 200 or 404; with 200 the provider had the key,
\* loses that key alone, and every other provider is untouched; with 404
\* the provider or the key was missing and the providers are as before.
C8_DeleteStep ==
    (req'.op = "delete_execution") =>
        LET old == ProvidersOf(file)
            new == ProvidersOf(file')
            i == FirstIndex(old, req'.id)
            k == req'.monthKey
        IN  /\ resp'.status \in {200, 404}
            /\ resp'.status = 200 =>
                  /\ i # 0
                  /\ k \in DOMAIN ExecutionOf(old[i])
                  /\ Len(new) = Len(old)
                  /\ DOMAIN ExecutionOf(new[i]) = DOMAIN ExecutionOf(old[i]) \ {k}
                  /\ \A m \in DOMAIN ExecutionOf(new[i]) :
                        ExecutionOf(new[i])[m] = ExecutionOf(old[i])[m]
                  /\ \A j \in 1..Len(old) : j # i => new[j] = old[j]
            /\ resp'.status = 404 =>
                  /\ i = 0 \/ k \notin DOMAIN ExecutionOf(old[i])
                  /\ new = old

\* C8: the execution PUT stores the data, the execution DELETE removes one
\* key of one provider and nothing else, and fails with 404 changing nothing.
C8_ExecutionPutDelete == [][C8_PutStep /\ C8_DeleteStep]_vars

C8_Witness ==
    /\ req.op = "delete_execution"
    /\ resp.status = 200
    /\ LET ps == ProvidersOf(file)
           i == FirstIndex(ps, req.id)
       IN  /\ ExecutionOf(ps[i]) # EmptyDict
           /\ \E j \in 1..Len(ps) : j # i /\ ExecutionOf(ps[j]) # EmptyDict

(***************************************************************************)
(* Claims about the etiqueta series.                                       *)
(***************************************************************************)
\* The document a request reads from the store
Loaded(f) == get_db_data(f).data

LoadedEtiquetas(f) == Get(Loaded(f), "etiquetas", EmptyDict)

LoadedHistory(f, s) ==
    IF s \in DOMAIN LoadedEtiquetas(f) THEN LoadedEtiquetas(f)[s]["history"] ELSE <<>>

IsPrefix(a, b) == Len(a) <= Len(b) /\ \A i \in 1..Len(a) : a[i] = b[i]

\* C6: a POST /api/etiquetas naming a series the store does not hold is
\* answered 400 and leaves every series' history and current_start as read.
C6_UnknownTypeRejected ==
    [][(req'.op = "post_etiquetas" /\ req'.type \notin DOMAIN LoadedEtiquetas(file)) =>
          /\ resp'.status = 400
          /\ DOMAIN EtiquetasOf(file') = DOMAIN LoadedEtiquetas(file)
          /\ \A s \in Series :
                /\ EtiquetasOf(file')[s]["history"] = LoadedEtiquetas(file)[s]["history"]
                /\ EtiquetasOf(file')[s]["current_start"] =
                      LoadedEtiquetas(file)[s]["current_start"]]_vars

C6_Witness ==
    /\ req.op = "post_etiquetas"
    /\ resp.status = 400
    /\ req.type \notin Series
    /\ \E s \in Series : HistoryOf(file, s) # <<>>

\* C7: over any request the history of each series before it is a prefix of
\* the history after it; a successful POST appends exactly the supplied entry
\* to the named series and leaves the other three histories as they were.
C7_HistoryAppendOnly ==
    [][/\ \A s \in Series : IsPrefix(LoadedHistory(file, s), HistoryOf(file', s))
       /\ (req'.op = "post_etiquetas" /\ resp'.status = 200) =>
             /\ req'.type \in Series
             /\ HistoryOf(file', req'.type) =
                   Append(LoadedHistory(file, req'.type), req'.entry)
             /\ \A s \in Series \ {req'.type} :
                   HistoryOf(file', s) = LoadedHistory(file, s)]_vars

C7_Witness ==
    /\ req.op = "post_etiquetas"
    /\ resp.status = 200
    /\ Len(HistoryOf(file, req.type)) >= 2
    /\ \E s \in Series \ {req.type} : HistoryOf(file, s) # <<>>

(***************************************************************************)
(* Claims about the record collections.                                    *)
(***************************************************************************)
UniqueIds(records) ==
    \A i \in 1..Len(records), j \in 1..Len(records) :
        i # j => records[i]["id"] # records[j]["id"]

\* C4: in every reachable state no two records of one collection have the
\* same id.
C4_UniqueIds == \A key \in RecordKeys : UniqueIds(ListOf(file, key))

DeleteOps == {"delete_provider", "delete_waiting_list_item", "delete_report",
              "delete_regulador"}

DeleteKey(op) ==
    CASE op = "delete_provider" -> "providers"
      [] op = "delete_waiting_list_item" -> "waiting_list"
      [] op = "delete_report" -> "reports"
      [] op = "delete_regulador" -> "reguladores"

\* C5: a DELETE by id on providers, waiting_list, reports or reguladores
\* whose id matches no record is answered 404 and leaves every collection,
\* and the upload folder, as the request found them.
C5_DeleteUnknownId ==
    [][(/\ req'.op \in DeleteOps
        /\ FirstIndex(Get(Loaded(file), DeleteKey(req'.op), <<>>), req'.id) = 0) =>
          /\ resp'.status = 404
          /\ \A key \in RecordKeys : ListOf(file', key) = Get(Loaded(file), key, <<>>)
          /\ uploads' = uploads]_vars

C5_Witness ==
    /\ req.op = "delete_report"
    /\ resp.status = 404
    /\ ListOf(file, "reports") # <<>>
    /\ ListOf(file, "providers") # <<>>

(***************************************************************************)
(* Claim about requests that overlap.                                      *)
(***************************************************************************)
AllDone == \A t \in Threads : th[t].pc = "done"

Changed(t) ==
    /\ th[t].req.op \in {"post_etiquetas", "add_provider"}
    /\ th[t].status \in {200, 201}

\* The document request t makes of the one it loaded
Alone(t) == Handle(th[t].req, th[t].loaded, th[t].rnd).data

\* The document the two requests make when u starts after t has saved
OneAfterOther(t, u) == Handle(th[u].req, Alone(t), th[u].rnd).data

\* C10: when two changing requests have loaded the same document, both are
\* answered with success, and the store is readable afterwards, it holds the
\* document of one of them alone, which is neither of the documents the two
\* make one after the other: one change is lost.
C10_LastWriteWins ==
    (/\ AllDone
     /\ \A t \in Threads : Changed(t)
     /\ th[1].loaded = th[2].loaded
     /\ file.kind = "json") =>
        /\ file.doc \in {Alone(1), Alone(2)}
        /\ file.doc \notin {OneAfterOther(1, 2), OneAfterOther(2, 1)}

\* An etiqueta POST and a provider create, both answered with success, and
\* a store that holds the provider without the history entry
C10_Witness ==
    /\ AllDone
    /\ th[1].req.op = "post_etiquetas" /\ th[1].status = 200
    /\ th[2].req.op = "add_provider" /\ th[2].status = 201
    /\ th[1].loaded = th[2].loaded
    /\ file.kind = "json"
    /\ Len(ProvidersOf(file)) = 1
    /\ HistoryOf(file, "aih-mac") = <<>>

====
